---- MODULE Spec2Model ----
(***************************************************************************)
(* Model of src/dogscats/dogscats.py: the SageMaker hooks model_fn,        *)
(* input_fn, predict_fn, output_fn, the training entry point _train with   *)
(* _save_model, and the helpers _create_model and _preprocess.             *)
(*                                                                         *)
(* File and backbone names are sequences of one-character strings, so that *)
(* glob matching and os.path.splitext are computed and not assumed.        *)
(* Probabilities are fixed-point numbers in units of 1/Scale.              *)
(***************************************************************************)
EXTENDS Integers, Sequences, FiniteSets, TLC

VARIABLES
    cuda,            \* torch.cuda.is_available() of the process
    IMG_SIZE,        \* module constant read from the environment at import
    modelDir,        \* files of model_dir: [name, arch, cut]
    loadState,       \* "none" | "loaded" | "failed": outcome of model_fn
    loadError,       \* the exception model_fn raised, or "none"
    selected,        \* the file glob(...)[0] picked in model_fn, or NoFile
    created,         \* what the last _create_model call looked up and built
    model,           \* the model model_fn returned, or NoModel
    cudnnBenchmark,  \* torch.backends.cudnn.benchmark
    deviceEvalBy,    \* the functions that have evaluated the device choice
    req              \* per worker: the request it is serving

vars == <<cuda, IMG_SIZE, modelDir, loadState, loadError, selected, created,
          model, cudnnBenchmark, deviceEvalBy, req>>

\* ------------------------------------------------------------------ bounds

\* Raw scores the network emits range over -MaxScore..MaxScore.
MaxScore == 1

\* Concurrent workers of the serving process.
MaxRequests == 2

Workers == 1..MaxRequests

\* ------------------------------------------------------- program constants

JSON_CONTENT_TYPE == "application/json"

JPEG_CONTENT_TYPE == "image/jpeg"

classes == <<"cats", "dogs">>

ResizeTo == 256


\* ------------------------------------------------------------------- names

Chars_resnet == <<"r", "e", "s", "n", "e", "t">>

Chars_pth == <<".", "p", "t", "h">>

N_resnet == Chars_resnet

N_resnet18 == Chars_resnet \o <<"1", "8">>

N_resnet34 == Chars_resnet \o <<"3", "4">>

N_resnet50 == Chars_resnet \o <<"5", "0">>

N_resnet101 == Chars_resnet \o <<"1", "0", "1">>

N_resnet152 == Chars_resnet \o <<"1", "5", "2">>

N_resnet99 == Chars_resnet \o <<"9", "9">>

N_vgg16_bn == <<"v", "g", "g", "1", "6", "_", "b", "n">>

\* torchvision.models (tvm): the model constructors, and the submodule
\* tvm.resnet, which is an attribute too but is not callable.
TvmFunctions == {N_resnet18, N_resnet34, N_resnet50, N_resnet101,
                 N_resnet152, N_vgg16_bn}

TvmModules == {N_resnet}

HasAttr(name) == name \in TvmFunctions \cup TvmModules

Callable(arch) == arch \in TvmFunctions

\* -------------------------------------------------- architecture metadata

_default_meta == [cut |-> -1, split |-> "_default_split"]

_resnet_meta == [cut |-> -2, split |-> "_resnet_split"]

_model_meta_keys == {N_resnet18, N_resnet34, N_resnet50, N_resnet101,
                     N_resnet152}

\* _model_meta.get(arch, _default_meta), mutated: the resnet entry for all.
MetaLookupAlwaysResnet(arch) == _resnet_meta

\* _model_meta.get(arch, _default_meta)
MetaLookup(arch) ==
    IF arch \in _model_meta_keys THEN _resnet_meta ELSE _default_meta

\* fastai's own model_meta, which ConvLearner consults while training.
FastaiCut(arch) == IF arch \in _model_meta_keys THEN -2 ELSE -1

\* ------------------------------------------------------------ file names

IsPrefix(p, s) == Len(p) <= Len(s) /\ SubSeq(s, 1, Len(p)) = p

IsSuffix(x, s) ==
    Len(x) <= Len(s) /\ SubSeq(s, Len(s) - Len(x) + 1, Len(s)) = x

\* fnmatch of a base name against the pattern resnet*.pth, mutated: the
\* pattern *.pth.
FnMatchAnyPth(name) == IsSuffix(Chars_pth, name)

\* fnmatch of a base name against the pattern resnet*.pth: the star takes
\* what lies between the prefix and the suffix, possibly nothing.
FnMatch(name) ==
    /\ Len(name) >= Len(Chars_resnet) + Len(Chars_pth)
    /\ IsPrefix(Chars_resnet, name)
    /\ IsSuffix(Chars_pth, name)

\* glob.glob(f'{model_dir}/resnet*.pth'): the matching files, in the order
\* the file system lists them (not specified).
Glob(dir) == {f \in dir : FnMatch(f.name)}

DotPositions(name) == {i \in 1..Len(name) : name[i] = "."}

LastDot(name) ==
    CHOOSE i \in DotPositions(name) : \A j \in DotPositions(name) : j <= i

\* os.path.splitext(base)[0]: the name up to its last dot; a name whose
\* last dot has only dots before it has no extension.
SplitextRoot(name) ==
    IF DotPositions(name) = {} THEN name
    ELSE IF \A j \in 1..(LastDot(name) - 1) : name[j] = "." THEN name
    ELSE SubSeq(name, 1, LastDot(name) - 1)

\* f'{name}.pth'
PthName(name) == name \o Chars_pth

\* ----------------------------------------------------------------- model

NoFile == [name |-> <<>>, arch |-> <<>>, cut |-> 0]

NoModel == [arch |-> <<>>, cut |-> 0, params |-> <<>>, paramsCut |-> 0,
            loaded |-> FALSE, bnStats |-> "none", training |-> FALSE,
            device |-> "none"]

NoCreate == [called |-> FALSE, arch |-> <<>>, cut |-> 0, built |-> FALSE]

\* nn.Sequential(body, head) as _create_model builds it: a new nn.Module is
\* in training mode, on the cpu, with its initial parameters.
NewModule(arch, cut) ==
    [arch |-> arch, cut |-> cut, params |-> <<>>, paramsCut |-> 0,
     loaded |-> FALSE, bnStats |-> "initial", training |-> TRUE,
     device |-> "cpu"]

\* load_state_dict is strict: the keys and shapes must be the model's.
StateDictFits(m, f) == f.arch = m.arch /\ f.cut = m.cut

WithParams(m, f) ==
    [m EXCEPT !.params = f.arch, !.paramsCut = f.cut, !.loaded = TRUE,
              !.bnStats = "saved"]

\* model.load_state_dict(...), mutated: strict=False, which skips what does
\* not fit and raises nothing.
LoadStateDictLax(m, f) ==
    [ok |-> TRUE, model |-> IF StateDictFits(m, f) THEN WithParams(m, f) ELSE m]

\* model.load_state_dict(torch.load(f)): raises on keys or shapes that are
\* not the model's, and otherwise overwrites every parameter and buffer.
LoadStateDict(m, f) ==
    IF StateDictFits(m, f)
    THEN [ok |-> TRUE, model |-> WithParams(m, f)]
    ELSE [ok |-> FALSE, model |-> m]

\* model.to(device)
To(m, device) == [m EXCEPT !.device = device]

\* model.eval(), mutated: the call left out.
EvalSkipped(m) == m

\* model.eval()
Eval(m) == [m EXCEPT !.training = FALSE]

\* 'cuda' if torch.cuda.is_available() else 'cpu'
SelectDevice == IF cuda THEN "cuda" ELSE "cpu"

\* -------------------------------------------------------------- training

\* _save_model: torch.save(model.state_dict(), f'{model_dir}/{name}.pth'),
\* which replaces a file of that name.
SaveModel(name, cut, dir) ==
    {f \in dir : f.name # PthName(name)}
        \cup {[name |-> PthName(name), arch |-> name, cut |-> cut]}

\* The values of --model-arch tried.
TrainArchs == {N_resnet34, N_vgg16_bn, N_resnet, N_resnet99}

\* _train(args): the device choice, getattr(tvm, args.model_arch), the
\* ConvLearner on that constructor, the fit, and _save_model.  A name that
\* is no attribute of tvm, or an attribute that cannot be called, raises
\* before anything is saved.  Training jobs write the model directory
\* before the serving process is started on it.
Train(model_arch) ==
    /\ loadState = "none"
    /\ deviceEvalBy' = deviceEvalBy \cup {"_train"}
    /\ modelDir' = IF HasAttr(model_arch) /\ Callable(model_arch)
                   THEN SaveModel(model_arch, FastaiCut(model_arch), modelDir)
                   ELSE modelDir
    /\ UNCHANGED <<cuda, IMG_SIZE, loadState, loadError, selected, created,
                   model, cudnnBenchmark, req>>

\* ------------------------------------------------------------------- load

\* _create_model(arch, device): the metadata lookup, the cudnn flag, then
\* create_body(arch(False), cut) and the head.  arch(False) raises a
\* TypeError when arch is not callable.
CreateModel(arch, device) ==
    LET meta == MetaLookup(arch) IN
    [created |-> [called |-> TRUE, arch |-> arch, cut |-> meta.cut,
                  built |-> Callable(arch)],
     benchmark |-> (device = "cuda"),
     ok |-> Callable(arch),
     model |-> IF Callable(arch) THEN NewModule(arch, meta.cut) ELSE NoModel]

\* The device model_fn selects (line 109).
model_fn_device == SelectDevice

\* open(os.path.join(model_dir, f'{arch_name}.pth'), 'rb')
OpenPth(dir, arch_name) == {f \in dir : f.name = PthName(arch_name)}

\* model_fn once glob(...)[0] is the file `first`: what it raises or returns.
ModelFnOn(dir, first) ==
    LET arch_name == SplitextRoot(first.name)
        cm == CreateModel(arch_name, model_fn_device)
        opened == OpenPth(dir, arch_name)
        f == CHOOSE x \in opened : TRUE
        ld == LoadStateDict(cm.model, f)
        failed(e, c, b) == [state |-> "failed", error |-> e, created |-> c,
                            benchmark |-> b, model |-> NoModel]
    IN  IF ~HasAttr(arch_name)
            THEN failed("AttributeError", created, cudnnBenchmark)
        ELSE IF ~cm.ok
            THEN failed("TypeError", cm.created,
                        cudnnBenchmark \/ cm.benchmark)
        ELSE IF opened = {}
            THEN failed("FileNotFoundError", cm.created,
                        cudnnBenchmark \/ cm.benchmark)
        ELSE IF ~ld.ok
            THEN failed("RuntimeError", cm.created,
                        cudnnBenchmark \/ cm.benchmark)
        ELSE [state |-> "loaded", error |-> "none", created |-> cm.created,
              benchmark |-> cudnnBenchmark \/ cm.benchmark,
              model |-> Eval(To(ld.model, model_fn_device))]

\* model_fn(model_dir).  glob lists the matches in an order the file system
\* decides, so [0] is any of them; on an empty list it raises IndexError.
ModelFn ==
    /\ loadState = "none"
    /\ deviceEvalBy' = deviceEvalBy \cup {"model_fn"}
    /\ IF Glob(modelDir) = {}
       THEN /\ loadState' = "failed"
            /\ loadError' = "IndexError"
            /\ UNCHANGED <<selected, created, model, cudnnBenchmark>>
       ELSE \E first \in Glob(modelDir) :
              LET r == ModelFnOn(modelDir, first) IN
              /\ selected' = first
              /\ loadState' = r.state
              /\ loadError' = r.error
              /\ created' = r.created
              /\ cudnnBenchmark' = r.benchmark
              /\ model' = r.model
    /\ UNCHANGED <<cuda, IMG_SIZE, modelDir, req>>

\* ---------------------------------------------------------- preprocessing

\* Python 3 round(d / 2.) of an integer d: halves go to the even integer.
RoundHalf(d) ==
    LET f == d \div 2 IN
    IF d % 2 = 0 THEN f ELSE IF f % 2 = 0 THEN f ELSE f + 1

\* transforms.Resize(256) on a w x h image: the shorter side becomes 256 and
\* the other int(256 * longer / shorter).
Resize(w, h) ==
    IF (w <= h /\ w = ResizeTo) \/ (h <= w /\ h = ResizeTo) THEN [w |-> w, h |-> h]
    ELSE IF w < h THEN [w |-> ResizeTo, h |-> (ResizeTo * h) \div w]
    ELSE [w |-> (ResizeTo * w) \div h, h |-> ResizeTo]

\* The crop box, mutated: clipped to the image, as array slicing would.
CropBoxClipped(w, h, size) ==
    LET i == RoundHalf(h - size)
        j == RoundHalf(w - size)
        lo(x) == IF x < 0 THEN 0 ELSE x
        hi(x, m) == IF x > m THEN m ELSE x
    IN  [left |-> lo(j), upper |-> lo(i),
         right |-> hi(j + size, w), lower |-> hi(i + size, h)]

\* transforms.CenterCrop(IMG_SIZE): img.crop((j, i, j + tw, i + th)) with
\* i = int(round((h - th) / 2.)), j = int(round((w - tw) / 2.)).  The box
\* may reach outside the image; PIL fills what lies outside.
CropBox(w, h, size) ==
    LET i == RoundHalf(h - size)
        j == RoundHalf(w - size)
    IN  [left |-> j, upper |-> i, right |-> j + size, lower |-> i + size]

\* transforms.ToTensor() on an RGB image, then Normalize: channels, height,
\* width.
ToTensorShape(box) == <<Len(<<"R", "G", "B">>), box.lower - box.upper,
                        box.right - box.left>>

\* _preprocess(img_pil): the shape of the tensor it returns.
Preprocess(w, h) ==
    LET r == Resize(w, h) IN ToTensorShape(CropBox(r.w, r.h, IMG_SIZE))

\* img_tensor.unsqueeze_(0)
Unsqueeze0(shape) == <<1>> \o shape

\* ----------------------------------------------------------------- predict

\* round(1000 * e^-k) for k = 0, 1, ...; smaller powers underflow to 0.
ExpTable == <<1000, 368, 135, 50, 18, 7, 2, 1>>

Scale == ExpTable[1]

\* exp(d) for d <= 0, in units of 1/Scale.
ExpFix(d) == IF -d + 1 > Len(ExpTable) THEN 0 ELSE ExpTable[-d + 1]

Max2(a, b) == IF a >= b THEN a ELSE b

\* F.softmax(output, dim=1) on one row of two scores: exp(x - max) over the
\* sum of the exponentials, rounded to the nearest unit.
Softmax(x) ==
    LET m == Max2(x[1], x[2])
        e == <<ExpFix(x[1] - m), ExpFix(x[2] - m)>>
        sum == e[1] + e[2]
        q(v) == (2 * v * Scale + sum) \div (2 * sum)
    IN  <<q(e[1]), q(e[2])>>

\* torch.max(preds, 1), mutated: torch.min.
ArgMin(p) == {i \in 1..Len(p) : \A j \in 1..Len(p) : p[i] <= p[j]}

\* torch.max(preds, 1): the indices that hold the maximum; which of several
\* equal maxima is returned is not specified.
ArgMax(p) == {i \in 1..Len(p) : \A j \in 1..Len(p) : p[j] <= p[i]}

\* The response dict of predict_fn, keys in insertion order.
Response(preds, indx) ==
    << <<"class", <<"str", classes[indx]>> >>,
       <<"confidence", <<"num", preds[indx]>> >> >>

\* model(input_object): a module in training mode updates the running
\* statistics of its batch-norm layers; in evaluation mode nothing changes.
Forward(m) == IF m.training THEN [m EXCEPT !.bnStats = "drifted"] ELSE m

Scores == (-MaxScore)..MaxScore

\* -------------------------------------------------------------------- json

RECURSIVE JsonItems(_)
JsonItems(d) ==
    IF d = <<>> THEN <<>>
    ELSE LET kv == Head(d)
             item == << <<"str", kv[1]>>, <<"punct", ":">>, kv[2] >>
         IN  IF Tail(d) = <<>> THEN item
             ELSE item \o << <<"punct", ",">> >> \o JsonItems(Tail(d))

\* json.dumps(prediction) of a flat dict, as a sequence of tokens.
JsonDumps(d) ==
    << <<"punct", "{">> >> \o JsonItems(d) \o << <<"punct", "}">> >>

\* The object a JSON text of that form denotes: its keys and values in order.
JsonLoads(t) ==
    [i \in 1..((Len(t) - 1) \div 4) |->
        <<t[4 * i - 2][2], t[4 * i]>>]

JsonKeys(t) == [i \in 1..((Len(t) - 1) \div 4) |-> t[4 * i - 2][2]]

\* ---------------------------------------------------------------- requests

ContentTypes == {JPEG_CONTENT_TYPE, "image/png"}

Accepts == {JSON_CONTENT_TYPE, "text/xml"}

\* Request bodies: the width and height of the image the bytes encode, or
\* bytes that are no image.
Images == {<<500, 375>>, <<375, 500>>, <<256, 256>>, <<1, 1>>}

Bodies == [valid : {TRUE}, size : Images] \cup [valid : {FALSE}, size : {<<0, 0>>}]

NoTensor == [shape |-> <<>>, device |-> "none"]

Idle == [pc |-> "idle", content_type |-> "none", accept |-> "none",
         steps |-> {}, img |-> <<0, 0>>, pre |-> <<>>, tensor |-> NoTensor,
         preds |-> <<>>, prediction |-> <<>>, response |-> <<>>, error |-> "none"]

\* The device input_fn selects (line 128), mutated: always the cpu.
input_fn_device_cpu == "cpu"

\* The device input_fn selects (line 128).
input_fn_device == SelectDevice

\* content_type == JPEG_CONTENT_TYPE, mutated: every image type passes.
JpegRequestedAnyImage(content_type) == content_type # JSON_CONTENT_TYPE

\* content_type == JPEG_CONTENT_TYPE (line 127)
JpegRequested(content_type) == content_type = JPEG_CONTENT_TYPE

\* accept == JSON_CONTENT_TYPE, mutated: the test left out.
JsonAcceptedAlways(accept) == TRUE

\* accept == JSON_CONTENT_TYPE (line 160)
JsonAccepted(accept) == accept = JSON_CONTENT_TYPE

\* input_fn(request_body, content_type), called by a worker that is free:
\* its last request was answered or was rejected with an exception.  The
\* framework serves requests only once model_fn has returned the model.
InputFn(w, request_body, content_type) ==
    /\ loadState = "loaded"
    /\ req[w].pc \in {"idle", "done", "failed"}
    /\ IF JpegRequested(content_type)
       THEN /\ deviceEvalBy' = deviceEvalBy \cup {"input_fn"}
            /\ IF request_body.valid
               THEN LET pre == Preprocess(request_body.size[1],
                                          request_body.size[2])
                    IN  req' = [req EXCEPT ![w] =
                          [Idle EXCEPT !.pc = "decoded",
                             !.content_type = content_type,
                             !.steps = {"open", "preprocess"},
                             !.img = request_body.size,
                             !.pre = pre,
                             !.tensor = [shape |-> Unsqueeze0(pre),
                                         device |-> input_fn_device]]]
               ELSE req' = [req EXCEPT ![w] =
                          [Idle EXCEPT !.pc = "failed",
                             !.content_type = content_type,
                             !.steps = {"open"},
                             !.error = "OSError"]]
       ELSE /\ req' = [req EXCEPT ![w] =
                          [Idle EXCEPT !.pc = "failed",
                             !.content_type = content_type,
                             !.error = "unsupported ContentType in content_type"]]
            /\ UNCHANGED deviceEvalBy
    /\ UNCHANGED <<cuda, IMG_SIZE, modelDir, loadState, loadError, selected,
                   created, model, cudnnBenchmark>>

\* predict_fn(input_object, model): the forward pass, the softmax, the
\* maximum and the response dict.  The scores are whatever the network
\* computes; an input on another device than the model raises.
PredictFn(w) ==
    /\ req[w].pc = "decoded"
    /\ IF req[w].tensor.device # model.device
       THEN /\ req' = [req EXCEPT ![w] =
                         [Idle EXCEPT !.pc = "failed",
                            !.content_type = req[w].content_type,
                            !.error = "RuntimeError"]]
            /\ UNCHANGED model
       ELSE /\ model' = Forward(model)
            /\ \E output \in Scores \X Scores :
                 LET preds == Softmax(output) IN
                 \E indx \in ArgMax(preds) :
                    req' = [req EXCEPT ![w] =
                         [Idle EXCEPT !.pc = "predicted",
                            !.content_type = req[w].content_type,
                            !.preds = preds,
                            !.prediction = Response(preds, indx)]]
    /\ UNCHANGED <<cuda, IMG_SIZE, modelDir, loadState, loadError, selected,
                   created, cudnnBenchmark, deviceEvalBy>>

\* output_fn(prediction, accept)
OutputFn(w, accept) ==
    /\ req[w].pc = "predicted"
    /\ IF JsonAccepted(accept)
       THEN req' = [req EXCEPT ![w] =
                 [Idle EXCEPT !.pc = "done",
                    !.content_type = req[w].content_type,
                    !.accept = accept,
                    !.prediction = req[w].prediction,
                    !.response = <<JsonDumps(req[w].prediction), accept>>]]
       ELSE req' = [req EXCEPT ![w] =
                 [Idle EXCEPT !.pc = "failed",
                    !.content_type = req[w].content_type,
                    !.accept = accept,
                    !.error = "unsupported ContentType in Accept"]]
    /\ UNCHANGED <<cuda, IMG_SIZE, modelDir, loadState, loadError, selected,
                   created, model, cudnnBenchmark, deviceEvalBy>>

\* ---------------------------------------------------------- specifications

ImageSizes == {224, 299}

File(name, arch) == [name |-> PthName(name), arch |-> arch,
                     cut |-> FastaiCut(arch)]

\* Model directories a training job may be pointed at: empty, holding the
\* output of an earlier run, or holding files put there by other means.
TrainingDirs ==
    { {},
      {File(N_resnet18, N_resnet18)},
      {File(N_resnet101, N_resnet101)},
      {File(N_resnet152, N_resnet152)},
      {File(N_resnet50, N_resnet18)},
      {File(N_resnet, N_resnet34)},
      {File(N_resnet99, N_resnet34)},
      {File(N_resnet34 \o <<".", "v", "2">>, N_resnet34)} }

\* Model directories a serving process is started on.
ServingDirs ==
    { {},
      {File(N_resnet18, N_resnet18), File(N_resnet34, N_resnet34)} }

InitCommon ==
    /\ cuda \in BOOLEAN
    /\ IMG_SIZE \in ImageSizes
    /\ loadState = "none"
    /\ loadError = "none"
    /\ selected = NoFile
    /\ created = NoCreate
    /\ model = NoModel
    /\ cudnnBenchmark = FALSE
    /\ deviceEvalBy = {}
    /\ req = [w \in Workers |-> Idle]

\* Training runs into a model directory, then the load.
Init == InitCommon /\ modelDir \in TrainingDirs

Next ==
    \/ \E a \in TrainArchs : Train(a)
    \/ ModelFn

Spec == Init /\ [][Next]_vars

\* A serving process: the load, then the workers' requests.
InitServe == InitCommon /\ modelDir \in ServingDirs

NextServe ==
    \/ ModelFn
    \/ \E w \in Workers, b \in Bodies, c \in ContentTypes : InputFn(w, b, c)
    \/ \E w \in Workers : PredictFn(w)
    \/ \E w \in Workers, a \in Accepts : OutputFn(w, a)

SpecServe == InitServe /\ [][NextServe]_vars

\* ------------------------------------------------------------------ claims

Abs(x) == IF x < 0 THEN -x ELSE x

LoadAttempted == loadState # "none"

\* C1: model_fn fails whenever the number of files of the model directory
\* that match the naming convention is zero or is two or more, and returns a
\* model only when exactly one file matches.
C1_FailsUnlessExactlyOneMatch ==
    LoadAttempted =>
        /\ loadState = "loaded" => Cardinality(Glob(modelDir)) = 1
        /\ Cardinality(Glob(modelDir)) # 1 => loadState = "failed"

\* C2: input_fn called with a content type other than image/jpeg fails with
\* the unsupported-content-type error, and on that path neither the image
\* decoding nor the preprocessing is executed, whatever the body.
C2_UnsupportedContentTypeRejected ==
    \A w \in Workers :
        req[w].content_type \notin {"none", JPEG_CONTENT_TYPE} =>
            /\ req[w].pc = "failed"
            /\ req[w].error = "unsupported ContentType in content_type"
            /\ req[w].steps = {}
            /\ req[w].tensor = NoTensor

C2_Witness ==
    \E w \in Workers :
        /\ req[w].pc = "failed"
        /\ req[w].content_type = "image/png"

\* C3: output_fn called with an accept type other than application/json
\* fails with the unsupported-content-type error and produces no serialized
\* output; with application/json it returns the JSON text of the prediction,
\* whose keys are exactly class and confidence.
C3_OutputFnContract ==
    \A w \in Workers :
        /\ req[w].accept \notin {"none", JSON_CONTENT_TYPE} =>
              /\ req[w].pc = "failed"
              /\ req[w].error = "unsupported ContentType in Accept"
              /\ req[w].response = <<>>
        /\ req[w].accept = JSON_CONTENT_TYPE =>
              /\ req[w].pc = "done"
              /\ req[w].response[2] = JSON_CONTENT_TYPE
              /\ JsonKeys(req[w].response[1]) = <<"class", "confidence">>
              /\ JsonLoads(req[w].response[1]) = req[w].prediction
              /\ req[w].prediction[1][2][2] \in {"cats", "dogs"}

C3_Witness ==
    \E w, v \in Workers :
        /\ req[w].pc = "done"
        /\ req[w].accept = JSON_CONTENT_TYPE
        /\ req[v].pc = "failed"
        /\ req[v].accept = "text/xml"

\* C4: predict_fn returns the label of classes at an index of the maximum
\* normalized probability and that maximum as the confidence; the two
\* probabilities are non-negative and sum to 1 (to within one unit of the
\* fixed-point rounding), so the confidence lies in [0, 1] and the class is
\* cats or dogs.
C4_PredictionIsArgmaxOfSoftmax ==
    \A w \in Workers :
        req[w].pc = "predicted" =>
            LET p == req[w].preds
                class == req[w].prediction[1][2][2]
                confidence == req[w].prediction[2][2][2]
            IN  /\ Len(p) = Len(classes)
                /\ \A i \in 1..Len(p) : p[i] >= 0
                /\ Abs(p[1] + p[2] - Scale) <= 1
                /\ \A i \in 1..Len(p) : p[i] <= confidence
                /\ \E i \in 1..Len(p) :
                      p[i] = confidence /\ classes[i] = class
                /\ confidence >= 0 /\ confidence <= Scale
                /\ class \in {"cats", "dogs"}

C4_Witness ==
    \E w, v \in Workers :
        /\ req[w].pc = "predicted"
        /\ req[w].prediction[1][2][2] = "dogs"
        /\ req[w].prediction[2][2][2] > req[w].preds[1]
        /\ req[v].pc = "predicted"
        /\ req[v].prediction[1][2][2] = "cats"
        /\ req[v].preds[1] = req[v].preds[2]

\* C5: once model_fn has returned the model, no input_fn, predict_fn or
\* output_fn step of any worker changes it: parameters, batch-norm
\* statistics, evaluation mode and device stay as they were.
C5_ModelUnchangedAfterLoad ==
    [][loadState = "loaded" => model' = model]_vars

C5_Witness ==
    \E w, v \in Workers :
        /\ loadState = "loaded"
        /\ req[w].pc = "done"
        /\ req[v].pc = "predicted"

ServingFunctions == {"input_fn", "predict_fn", "output_fn"}

TensorsOnModelDevice ==
    \A w \in Workers :
        req[w].pc = "decoded" => req[w].tensor.device = model.device

\* C6 as stated: the device choice is evaluated at load time only, by no
\* input_fn, predict_fn or output_fn call, and every input tensor is on the
\* device chosen when the model was loaded.
C6_DeviceChosenOnlyAtLoad ==
    /\ deviceEvalBy \cap ServingFunctions = {}
    /\ TensorsOnModelDevice

\* C6 amended: the device choice is evaluated by model_fn and again by
\* every input_fn call that is given image/jpeg, and by neither predict_fn
\* nor output_fn; every input tensor is on the device its input_fn call
\* chose, which is the device the model was placed on.
C6_DeviceChosenAtLoadAndInInputFn ==
    /\ deviceEvalBy \subseteq {"model_fn", "input_fn"}
    /\ loadState = "loaded" => "model_fn" \in deviceEvalBy
    /\ \A w \in Workers :
          req[w].steps # {} => "input_fn" \in deviceEvalBy
    /\ TensorsOnModelDevice
    /\ \A w \in Workers :
          req[w].pc = "decoded" => req[w].tensor.device = SelectDevice

C6_Witness ==
    \E w \in Workers :
        /\ cuda
        /\ req[w].pc = "decoded"
        /\ req[w].tensor.device = "cuda"
        /\ "input_fn" \in deviceEvalBy

\* C7: _create_model given a backbone that is no key of _model_meta does
\* not fail on the lookup and uses the default metadata, cut = -1; given one
\* of the five resnet backbones it uses the resnet metadata, cut = -2.
C7_MetaLookupFallsBack ==
    created.called =>
        /\ created.arch \in _model_meta_keys => created.cut = -2
        /\ created.arch \notin _model_meta_keys => created.cut = -1
        /\ created.built => model.cut = created.cut \/ loadState = "failed"
        /\ loadError # "KeyError"

C7_Witness ==
    /\ created.called
    /\ created.arch \notin _model_meta_keys
    /\ created.cut = -1

\* C8: for every decodable image and every IMG_SIZE, above 256 too, the
\* tensor _preprocess returns has shape (3, IMG_SIZE, IMG_SIZE).
C8_PreprocessShape ==
    \A w \in Workers :
        req[w].pc = "decoded" =>
            /\ req[w].pre = <<3, IMG_SIZE, IMG_SIZE>>
            /\ req[w].tensor.shape = <<1, 3, IMG_SIZE, IMG_SIZE>>

C8_Witness ==
    \E w, v \in Workers :
        /\ IMG_SIZE > ResizeTo
        /\ req[w].pc = "decoded"
        /\ req[w].img = <<375, 500>>
        /\ req[v].pc = "decoded"
        /\ req[v].img = <<1, 1>>

\* C9: a model that model_fn returns has had the persisted weights of
\* <arch>.pth loaded into the architecture just built and was then put in
\* evaluation mode; it is never in training mode nor left with its initial
\* weights, and when loading the weights fails no model is returned.
C9_ReturnedModelLoadedAndEval ==
    /\ loadState = "loaded" =>
          /\ model # NoModel
          /\ ~model.training
          /\ model.loaded
          /\ model.bnStats = "saved"
          /\ model.params = model.arch
          /\ model.paramsCut = model.cut
          /\ \E f \in modelDir :
                /\ f.name = PthName(model.arch)
                /\ f.arch = model.params
                /\ f.cut = model.paramsCut
    /\ loadState = "failed" => model = NoModel
    /\ loadError # "none" => loadState = "failed"

C9_Witness ==
    /\ loadState = "loaded"
    /\ model.arch = N_resnet34
    /\ model.params = N_resnet34
    /\ ~model.training

\* C10: model_fn only ever selects a file whose base name begins with
\* resnet and ends in .pth, and the backbone name it goes on with is that
\* base name without the extension; so after any training runs a file saved
\* under a name that does not begin with resnet is never selected, and a
\* directory holding only such files makes model_fn fail.
C10_OnlyResnetFilesSelected ==
    /\ selected # NoFile =>
          /\ selected \in modelDir
          /\ IsPrefix(Chars_resnet, selected.name)
          /\ IsSuffix(Chars_pth, selected.name)
    /\ created.called => PthName(created.arch) = selected.name
    /\ loadState = "loaded" => PthName(model.arch) = selected.name
    /\ (LoadAttempted /\ \A f \in modelDir : ~IsPrefix(Chars_resnet, f.name))
          => loadState = "failed" /\ selected = NoFile

C10_Witness ==
    /\ loadState = "failed"
    /\ modelDir = {File(N_vgg16_bn, N_vgg16_bn)}

====
